---- MODULE Spec2Model ----
(***************************************************************************)
(* pid-allocator: a two-level bitmap of PIDs (PidAllocatorInner) behind    *)
(* Arc<SpinMutex<...>>, handed out as Pid handles that recycle their       *)
(* number when dropped.  Model of src/src/allocator.rs.                    *)
(*                                                                         *)
(* The machine word is scaled down: usize has BITS = 2^BITS_PER_LAYER_SHIFT*)
(* bits.  ORDER is the const generic parameter of PidAllocator.  With      *)
(* ORDER > BITS the shifts `1 << index` (allocate) and `1 << layer_index`  *)
(* (recycle) overflow: a build with overflow checks panics there, a build  *)
(* without them masks the shift amount.  Both outcomes are modelled.       *)
(***************************************************************************)
EXTENDS Naturals, FiniteSets, Bags, TLC

\* const generic parameter ORDER: the number of bottom layers
ORDER == 3

\* usize::BITS.trailing_zeros() of the (scaled) target
BITS_PER_LAYER_SHIFT == 1

\* how many numbers at and above the capacity contains(number) is asked about
ExtraNumbers == 3

\* the threads that share the allocator
Threads == {"t1", "t2"}

\* usize::BITS
BITS == 2 ^ BITS_PER_LAYER_SHIFT

\* usize::MAX
MAX == (2 ^ BITS) - 1

Capacity == ORDER * BITS

Layers == 0 .. (ORDER - 1)

Numbers == 0 .. (Capacity + ExtraNumbers - 1)

-----------------------------------------------------------------------------
(* usize arithmetic *)

RECURSIVE BitOr(_, _)
BitOr(a, b) ==
    IF a = 0 THEN b
    ELSE IF b = 0 THEN a
    ELSE (IF a % 2 = 1 \/ b % 2 = 1 THEN 1 ELSE 0) + 2 * BitOr(a \div 2, b \div 2)

RECURSIVE BitAnd(_, _)
BitAnd(a, b) ==
    IF a = 0 \/ b = 0 THEN 0
    ELSE (IF a % 2 = 1 /\ b % 2 = 1 THEN 1 ELSE 0) + 2 * BitAnd(a \div 2, b \div 2)

\* !x on usize
BitNot(x) == MAX - x

\* x.trailing_zeros()
RECURSIVE TrailingZeros(_)
TrailingZeros(x) ==
    IF x = 0 THEN BITS
    ELSE IF x % 2 = 1 THEN 0
    ELSE 1 + TrailingZeros(x \div 2)

\* 1 << k on usize, as the build computes it.  For k < BITS the value; for
\* k >= BITS a panic when the build checks overflow, else the shift by k masked
\* to the word width.
Shl1(k, checks) ==
    IF k < BITS THEN [panic |-> FALSE, value |-> 2 ^ k]
    ELSE IF checks THEN [panic |-> TRUE, value |-> 0]
    ELSE [panic |-> FALSE, value |-> 2 ^ (k % BITS)]

\* bit j of word w is set
BitSet(w, j) == (w \div (2 ^ j)) % 2 = 1

-----------------------------------------------------------------------------
(* Option<usize> and the outcome of a call *)

None == [tag |-> "None", number |-> 0]
Some(n) == [tag |-> "Some", number |-> n]
Unit == [tag |-> "Unit", number |-> 0]
Bool(b) == [tag |-> IF b THEN "true" ELSE "false", number |-> 0]
\* panic 'attempt to shift left with overflow'
PanicShift == [tag |-> "PanicShift", number |-> 0]
\* panic 'index out of bounds'
PanicIndex == [tag |-> "PanicIndex", number |-> 0]
NoRet == [tag |-> "-", number |-> 0]

IsPanic(r) == r.tag \in {"PanicShift", "PanicIndex"}

-----------------------------------------------------------------------------
(* PidAllocatorInner *)

\* PidAllocatorInner::new
new == [top_layer |-> 0, bottom_layers |-> [i \in Layers |-> 0]]

\* a scan that keeps the last layer that is not full instead of the first
ScanLast(bottom_layers, index) ==
    LET open == {i \in index .. (ORDER - 1) : bottom_layers[i] # MAX}
    IN IF open = {} THEN ORDER ELSE CHOOSE i \in open : \A j \in open : j <= i

\* the for loop of allocate: the first index whose layer is not usize::MAX,
\* ORDER when the loop runs to its end
RECURSIVE Scan(_, _)
Scan(bottom_layers, index) ==
    IF index >= ORDER THEN ORDER
    ELSE IF bottom_layers[index] # MAX THEN index
    ELSE Scan(bottom_layers, index + 1)

\* a scan that trusts the summary word: it skips every layer whose summary
\* bit is set without looking at the layer
allocate_find_by_summary(in) ==
    LET open == {i \in Layers : ~BitSet(in.top_layer, i) /\ in.bottom_layers[i] # MAX}
        index == IF open = {} THEN ORDER
                 ELSE CHOOSE i \in open : \A j \in open : i <= j
    IN IF index = ORDER THEN None
       ELSE Some(index * BITS + TrailingZeros(BitNot(in.bottom_layers[index])))

\* allocate, the read half: the layer the loop stops at and its lowest zero bit,
\* as the number index * BITS + free_bit; None when every layer is usize::MAX
allocate_find(in) ==
    LET index == Scan(in.bottom_layers, 0) IN
    IF index = ORDER THEN None
    ELSE Some(index * BITS + TrailingZeros(BitNot(in.bottom_layers[index])))

\* a mark that numbers the layers from one: (index + 1) * BITS + free_bit
allocate_mark_from_one(in, index, free_bit, checks) ==
    LET marked == [in.bottom_layers EXCEPT ![index] = BitOr(@, 2 ^ free_bit)]
        s == Shl1(index, checks)
    IN IF marked[index] = MAX /\ s.panic
       THEN [inner |-> [top_layer |-> in.top_layer, bottom_layers |-> marked],
             ret |-> PanicShift]
       ELSE [inner |-> [top_layer |-> IF marked[index] = MAX
                                      THEN BitOr(in.top_layer, s.value)
                                      ELSE in.top_layer,
                        bottom_layers |-> marked],
             ret |-> Some((index + 1) * BITS + free_bit)]

\* a mark that has lost its shift: |= free_bit instead of |= 1 << free_bit
allocate_mark_no_shift(in, index, free_bit, checks) ==
    LET marked == [in.bottom_layers EXCEPT ![index] = BitOr(@, free_bit)]
        s == Shl1(index, checks)
    IN IF marked[index] = MAX
       THEN IF s.panic
            THEN [inner |-> [top_layer |-> in.top_layer, bottom_layers |-> marked],
                  ret |-> PanicShift]
            ELSE [inner |-> [top_layer |-> BitOr(in.top_layer, s.value),
                             bottom_layers |-> marked],
                  ret |-> Some(index * BITS + free_bit)]
       ELSE [inner |-> [top_layer |-> in.top_layer, bottom_layers |-> marked],
             ret |-> Some(index * BITS + free_bit)]

\* allocate, the write half, for the index and free_bit found: the outcome
\* [inner, ret]
allocate_mark(in, index, free_bit, checks) ==
    LET marked == [in.bottom_layers EXCEPT ![index] = BitOr(@, 2 ^ free_bit)]
        s == Shl1(index, checks)
    IN IF marked[index] = MAX
       THEN IF s.panic
            THEN [inner |-> [top_layer |-> in.top_layer, bottom_layers |-> marked],
                  ret |-> PanicShift]
            ELSE [inner |-> [top_layer |-> BitOr(in.top_layer, s.value),
                             bottom_layers |-> marked],
                  ret |-> Some(index * BITS + free_bit)]
       ELSE [inner |-> [top_layer |-> in.top_layer, bottom_layers |-> marked],
             ret |-> Some(index * BITS + free_bit)]

\* PidAllocatorInner::allocate: the outcome [inner, ret]
allocate(in, checks) ==
    LET found == allocate_find(in) IN
    IF found = None THEN [inner |-> in, ret |-> None]
    ELSE allocate_mark(in, found.number \div BITS, found.number % BITS, checks)

\* a recycle that has lost the `!` of its mask: &= (1 << bit_index)
recycle_keep_bit(in, number, checks) ==
    LET layer_index == number \div (2 ^ BITS_PER_LAYER_SHIFT)
        bit_index == BitAnd(number, BITS - 1)
    IN IF layer_index \notin DOMAIN in.bottom_layers
       THEN [inner |-> in, ret |-> PanicIndex]
       ELSE
         LET cleared == [in.bottom_layers EXCEPT
                           ![layer_index] = BitAnd(@, 2 ^ bit_index)]
             s == Shl1(layer_index, checks)
         IN IF s.panic
            THEN [inner |-> [top_layer |-> in.top_layer, bottom_layers |-> cleared],
                  ret |-> PanicShift]
            ELSE [inner |-> [top_layer |-> BitAnd(in.top_layer, BitNot(s.value)),
                             bottom_layers |-> cleared],
                  ret |-> Unit]

\* a recycle that forgets the summary word: only the detail bit is cleared
recycle_no_summary(in, number, checks) ==
    LET layer_index == number \div (2 ^ BITS_PER_LAYER_SHIFT)
        bit_index == BitAnd(number, BITS - 1)
    IN IF layer_index \notin DOMAIN in.bottom_layers
       THEN [inner |-> in, ret |-> PanicIndex]
       ELSE [inner |-> [top_layer |-> in.top_layer,
                        bottom_layers |-> [in.bottom_layers EXCEPT
                           ![layer_index] = BitAnd(@, BitNot(2 ^ bit_index))]],
             ret |-> Unit]

\* PidAllocatorInner::recycle (allocator.rs): the outcome [inner, ret]
recycle(in, number, checks) ==
    LET layer_index == number \div (2 ^ BITS_PER_LAYER_SHIFT)
        bit_index == BitAnd(number, BITS - 1)
    IN IF layer_index \notin DOMAIN in.bottom_layers
       THEN [inner |-> in, ret |-> PanicIndex]
       ELSE
         LET cleared == [in.bottom_layers EXCEPT
                           ![layer_index] = BitAnd(@, BitNot(2 ^ bit_index))]
             s == Shl1(layer_index, checks)
         IN IF s.panic
            THEN [inner |-> [top_layer |-> in.top_layer, bottom_layers |-> cleared],
                  ret |-> PanicShift]
            ELSE [inner |-> [top_layer |-> BitAnd(in.top_layer, BitNot(s.value)),
                             bottom_layers |-> cleared],
                  ret |-> Unit]

\* PidAllocatorInner::allocate of lib.rs: the same loop, with
\* index * (usize::BITS as usize) + free_bit as the number
lib_allocate(in, checks) ==
    LET found == allocate_find(in) IN
    IF found = None THEN [inner |-> in, ret |-> None]
    ELSE allocate_mark(in, found.number \div BITS, found.number % BITS, checks)

\* a lib.rs recycle with its test inverted: the summary bit is cleared only
\* when the layer is usize::MAX after the clear
lib_recycle_inverted(in, number, checks) ==
    LET bits_per_layer == BITS
        layer_index == number \div bits_per_layer
        bit_index == number % bits_per_layer
    IN IF layer_index \notin DOMAIN in.bottom_layers
       THEN [inner |-> in, ret |-> PanicIndex]
       ELSE
         LET cleared == [in.bottom_layers EXCEPT
                           ![layer_index] = BitAnd(@, BitNot(2 ^ bit_index))]
             s == Shl1(layer_index, checks)
         IN IF cleared[layer_index] = MAX
            THEN IF s.panic
                 THEN [inner |-> [top_layer |-> in.top_layer, bottom_layers |-> cleared],
                       ret |-> PanicShift]
                 ELSE [inner |-> [top_layer |-> BitAnd(in.top_layer, BitNot(s.value)),
                                  bottom_layers |-> cleared],
                       ret |-> Unit]
            ELSE [inner |-> [top_layer |-> in.top_layer, bottom_layers |-> cleared],
                  ret |-> Unit]

\* PidAllocatorInner::recycle (lib.rs): the summary bit is cleared only when
\* the layer is not usize::MAX after the clear; the outcome [inner, ret]
lib_recycle(in, number, checks) ==
    LET bits_per_layer == BITS
        layer_index == number \div bits_per_layer
        bit_index == number % bits_per_layer
    IN IF layer_index \notin DOMAIN in.bottom_layers
       THEN [inner |-> in, ret |-> PanicIndex]
       ELSE
         LET cleared == [in.bottom_layers EXCEPT
                           ![layer_index] = BitAnd(@, BitNot(2 ^ bit_index))]
             s == Shl1(layer_index, checks)
         IN IF cleared[layer_index] # MAX
            THEN IF s.panic
                 THEN [inner |-> [top_layer |-> in.top_layer, bottom_layers |-> cleared],
                       ret |-> PanicShift]
                 ELSE [inner |-> [top_layer |-> BitAnd(in.top_layer, BitNot(s.value)),
                                  bottom_layers |-> cleared],
                       ret |-> Unit]
            ELSE [inner |-> [top_layer |-> in.top_layer, bottom_layers |-> cleared],
                  ret |-> Unit]

\* a contains whose range test is off by one: layer_index <= len
contains_le(in, number) ==
    LET layer_index == number \div (2 ^ BITS_PER_LAYER_SHIFT)
        bit_index == BitAnd(number, (2 ^ BITS_PER_LAYER_SHIFT) - 1)
    IN IF layer_index <= ORDER
       THEN IF layer_index \in DOMAIN in.bottom_layers
            THEN Bool(BitAnd(in.bottom_layers[layer_index], 2 ^ bit_index) # 0)
            ELSE PanicIndex
       ELSE Bool(FALSE)

\* PidAllocatorInner::contains: Bool(..), or the panic of an index out of bounds
contains(in, number) ==
    LET layer_index == number \div (2 ^ BITS_PER_LAYER_SHIFT)
        bit_index == BitAnd(number, (2 ^ BITS_PER_LAYER_SHIFT) - 1)
    IN IF layer_index < ORDER
       THEN IF layer_index \in DOMAIN in.bottom_layers
            THEN Bool(BitAnd(in.bottom_layers[layer_index], 2 ^ bit_index) # 0)
            ELSE PanicIndex
       ELSE Bool(FALSE)

-----------------------------------------------------------------------------
(* State *)

VARIABLES
    overflow_checks, \* the build: TRUE when integer overflow is checked
    inner,    \* the PidAllocatorInner inside the SpinMutex
    locked,   \* the SpinMutex's flag
    strong,   \* the Arc's strong count; 0 once the store is torn down
    handle,   \* TRUE while the PidAllocator exists
    pids,     \* the bag of the numbers of the Pid handles at rest
    pc,       \* per thread: where it is in the operation it runs
    arg,      \* per thread: the number argument of contains / the Pid being dropped
    ret,      \* per thread: the outcome of the operation's body
    pair      \* two stores stepped side by side through the same operations

vars == <<pair, overflow_checks, inner, locked, strong, handle, pids, pc, arg, ret>>

NoArg == Capacity + ExtraNumbers

\* two fresh stores, nothing allocated from them, no operation applied yet
NoPair == [x |-> new, y |-> new, live |-> {}, xret |-> NoRet, yret |-> NoRet]

\* PidAllocator::new, in a build of either kind
Init ==
    /\ overflow_checks \in BOOLEAN
    /\ inner = new
    /\ locked = FALSE
    /\ strong = 1
    /\ handle = TRUE
    /\ pids = EmptyBag
    /\ pc = [t \in Threads |-> "idle"]
    /\ arg = [t \in Threads |-> NoArg]
    /\ ret = [t \in Threads |-> NoRet]
    /\ pair = NoPair

\* a thread calls PidAllocator::allocate
AllocateCall(t) ==
    /\ handle
    /\ pc[t] = "idle"
    /\ pc' = [pc EXCEPT ![t] = "a_lock"]
    /\ UNCHANGED <<pair, overflow_checks, inner, locked, strong, handle, pids, arg, ret>>

\* a thread calls PidAllocator::contains(number)
ContainsCall(t, number) ==
    /\ handle
    /\ pc[t] = "idle"
    /\ pc' = [pc EXCEPT ![t] = "c_lock"]
    /\ arg' = [arg EXCEPT ![t] = number]
    /\ UNCHANGED <<pair, overflow_checks, inner, locked, strong, handle, pids, ret>>

\* a Pid at rest goes out of scope on thread t: Drop::drop is entered
DropCall(t, number) ==
    /\ pc[t] = "idle"
    /\ BagIn(number, pids)
    /\ pids' = pids (-) SetToBag({number})
    /\ pc' = [pc EXCEPT ![t] = "d_lock"]
    /\ arg' = [arg EXCEPT ![t] = number]
    /\ UNCHANGED <<pair, overflow_checks, inner, locked, strong, handle, ret>>

\* a lock that does not exclude: the flag is set without being tested
LockNoExclusion(t) ==
    /\ pc[t] \in {"a_lock", "c_lock", "d_lock"}
    /\ locked' = TRUE
    /\ pc' = [pc EXCEPT ![t] = CASE pc[t] = "a_lock" -> "a_cs"
                                 [] pc[t] = "c_lock" -> "c_cs"
                                 [] pc[t] = "d_lock" -> "d_cs"]
    /\ UNCHANGED <<pair, overflow_checks, inner, strong, handle, pids, arg, ret>>

\* SpinMutex::lock: the compare-exchange succeeds only on a free lock
Lock(t) ==
    /\ pc[t] \in {"a_lock", "c_lock", "d_lock"}
    /\ ~locked
    /\ locked' = TRUE
    /\ pc' = [pc EXCEPT ![t] = CASE pc[t] = "a_lock" -> "a_cs"
                                 [] pc[t] = "c_lock" -> "c_cs"
                                 [] pc[t] = "d_lock" -> "d_cs"]
    /\ UNCHANGED <<pair, overflow_checks, inner, strong, handle, pids, arg, ret>>

\* inner.allocate(), the loop: reads the layers and stops at the first that is
\* not full, or runs to its end and returns None
AllocateScan(t) ==
    /\ pc[t] = "a_cs"
    /\ LET found == allocate_find(inner) IN
         /\ ret' = [ret EXCEPT ![t] = found]
         /\ pc' = [pc EXCEPT ![t] = IF found = None THEN "a_ret" ELSE "a_mark"]
    /\ UNCHANGED <<pair, overflow_checks, inner, locked, strong, handle, pids, arg>>

\* an allocate whose Pid takes no clone of the Arc
AllocateMarkNoClone(t) ==
    /\ pc[t] = "a_mark"
    /\ LET o == allocate_mark(inner, ret[t].number \div BITS, ret[t].number % BITS,
                              overflow_checks)
       IN /\ inner' = o.inner
          /\ ret' = [ret EXCEPT ![t] = o.ret]
    /\ pc' = [pc EXCEPT ![t] = "a_ret"]
    /\ UNCHANGED <<pair, overflow_checks, locked, strong, handle, pids, arg>>

\* inner.allocate(), the loop body: sets the bit and the summary bit, and
\* .map(|number| Pid {..}) builds the Pid, which takes a clone of the Arc
AllocateMark(t) ==
    /\ pc[t] = "a_mark"
    /\ LET o == allocate_mark(inner, ret[t].number \div BITS, ret[t].number % BITS,
                              overflow_checks)
       IN /\ inner' = o.inner
          /\ ret' = [ret EXCEPT ![t] = o.ret]
          /\ strong' = IF o.ret.tag = "Some" THEN strong + 1 ELSE strong
    /\ pc' = [pc EXCEPT ![t] = "a_ret"]
    /\ UNCHANGED <<pair, overflow_checks, locked, handle, pids, arg>>

\* PidAllocator::allocate returns: the guard is dropped, the Option<Pid> goes to
\* the caller; a panic unwinds through the guard and ends the thread, after
\* which another thread may run in its place
AllocateReturn(t) ==
    /\ pc[t] = "a_ret"
    /\ locked' = FALSE
    /\ pids' = IF ret[t].tag = "Some" THEN pids (+) SetToBag({ret[t].number}) ELSE pids
    /\ pc' = [pc EXCEPT ![t] = "idle"]
    /\ ret' = [ret EXCEPT ![t] = NoRet]
    /\ UNCHANGED <<pair, overflow_checks, inner, strong, handle, arg>>

\* PidAllocator::contains under the lock
ContainsBody(t) ==
    /\ pc[t] = "c_cs"
    /\ ret' = [ret EXCEPT ![t] = contains(inner, arg[t])]
    /\ pc' = [pc EXCEPT ![t] = "c_ret"]
    /\ UNCHANGED <<pair, overflow_checks, inner, locked, strong, handle, pids, arg>>

\* a contains that returns with the guard leaked: the lock stays taken
ContainsReturnKeepsLock(t) ==
    /\ pc[t] = "c_ret"
    /\ pc' = [pc EXCEPT ![t] = "idle"]
    /\ arg' = [arg EXCEPT ![t] = NoArg]
    /\ ret' = [ret EXCEPT ![t] = NoRet]
    /\ UNCHANGED <<pair, overflow_checks, inner, locked, strong, handle, pids>>

\* PidAllocator::contains returns: the temporary guard is dropped
ContainsReturn(t) ==
    /\ pc[t] = "c_ret"
    /\ locked' = FALSE
    /\ pc' = [pc EXCEPT ![t] = "idle"]
    /\ arg' = [arg EXCEPT ![t] = NoArg]
    /\ ret' = [ret EXCEPT ![t] = NoRet]
    /\ UNCHANGED <<pair, overflow_checks, inner, strong, handle, pids>>

\* Drop for Pid under the lock: recycle(self.number)
DropBody(t) ==
    /\ pc[t] = "d_cs"
    /\ LET o == recycle(inner, arg[t], overflow_checks) IN
         /\ inner' = o.inner
         /\ ret' = [ret EXCEPT ![t] = o.ret]
    /\ pc' = [pc EXCEPT ![t] = "d_ret"]
    /\ UNCHANGED <<pair, overflow_checks, locked, strong, handle, pids, arg>>

\* Drop for Pid: the temporary guard is dropped at the end of the statement
\* (or by the unwinding of a panic)
DropUnlock(t) ==
    /\ pc[t] = "d_ret"
    /\ locked' = FALSE
    /\ pc' = [pc EXCEPT ![t] = "d_arc"]
    /\ UNCHANGED <<pair, overflow_checks, inner, strong, handle, pids, arg, ret>>

\* the Pid's fields are dropped (also when drop unwinds from a panic): its Arc
\* gives up one strong reference
DropArc(t) ==
    /\ pc[t] = "d_arc"
    /\ strong' = strong - 1
    /\ pc' = [pc EXCEPT ![t] = "idle"]
    /\ arg' = [arg EXCEPT ![t] = NoArg]
    /\ ret' = [ret EXCEPT ![t] = NoRet]
    /\ UNCHANGED <<pair, overflow_checks, inner, locked, handle, pids>>

\* the PidAllocator is dropped; no call borrows it at that moment
DropAllocator ==
    /\ handle
    /\ \A t \in Threads :
         pc[t] \notin {"a_lock", "a_cs", "a_mark", "a_ret", "c_lock", "c_cs", "c_ret"}
    /\ handle' = FALSE
    /\ strong' = strong - 1
    /\ UNCHANGED <<pair, overflow_checks, inner, locked, pids, pc, arg, ret>>

Next ==
    \/ \E t \in Threads : AllocateCall(t)
    \/ \E t \in Threads : \E number \in Numbers : ContainsCall(t, number)
    \/ \E t \in Threads : \E number \in Numbers : DropCall(t, number)
    \/ \E t \in Threads : Lock(t)
    \/ \E t \in Threads : AllocateScan(t)
    \/ \E t \in Threads : AllocateMark(t)
    \/ \E t \in Threads : AllocateReturn(t)
    \/ \E t \in Threads : ContainsBody(t)
    \/ \E t \in Threads : ContainsReturn(t)
    \/ \E t \in Threads : DropBody(t)
    \/ \E t \in Threads : DropUnlock(t)
    \/ \E t \in Threads : DropArc(t)
    \/ DropAllocator

Spec == Init /\ [][Next]_vars

\* Drop for Pid under the lock, in lib.rs: its recycle(self.number)
LibDropBody(t) ==
    /\ pc[t] = "d_cs"
    /\ LET o == lib_recycle(inner, arg[t], overflow_checks) IN
         /\ inner' = o.inner
         /\ ret' = [ret EXCEPT ![t] = o.ret]
    /\ pc' = [pc EXCEPT ![t] = "d_ret"]
    /\ UNCHANGED <<pair, overflow_checks, locked, strong, handle, pids, arg>>

\* the crate of lib.rs: the same PidAllocator and Pid, no contains, and the
\* recycle of lib.rs
LibNext ==
    \/ \E t \in Threads : AllocateCall(t)
    \/ \E t \in Threads : \E number \in Numbers : DropCall(t, number)
    \/ \E t \in Threads : Lock(t)
    \/ \E t \in Threads : AllocateScan(t)
    \/ \E t \in Threads : AllocateMark(t)
    \/ \E t \in Threads : AllocateReturn(t)
    \/ \E t \in Threads : LibDropBody(t)
    \/ \E t \in Threads : DropUnlock(t)
    \/ \E t \in Threads : DropArc(t)
    \/ DropAllocator

LibSpec == Init /\ [][LibNext]_vars

-----------------------------------------------------------------------------
(* Two stores stepped side by side, by one caller, through the same
   operations: pair.x and pair.y are the stores, pair.live the numbers of the
   Pids not yet dropped, pair.xret and pair.yret the outcomes of the last
   operation on each store. *)

\* the variables of the threads' program, at rest while the pair is stepped
program == <<overflow_checks, inner, locked, strong, handle, pids, pc, arg, ret>>

\* a store whose detail words are those of a fresh store and whose summary
\* word is top_layer
WithSummary(top_layer) == [new EXCEPT !.top_layer = top_layer]

\* the second store starts with the same detail words as the first and an
\* arbitrary summary word
SummaryInit ==
    /\ overflow_checks \in BOOLEAN
    /\ inner = new
    /\ locked = FALSE
    /\ strong = 1
    /\ handle = TRUE
    /\ pids = EmptyBag
    /\ pc = [t \in Threads |-> "idle"]
    /\ arg = [t \in Threads |-> NoArg]
    /\ ret = [t \in Threads |-> NoRet]
    /\ \E top_layer \in 0 .. MAX :
         pair = [NoPair EXCEPT !.y = WithSummary(top_layer)]

\* the state of the pair after an operation with outcomes ox and oy, Pids
\* being made and dropped as the first store's outcome says
Stepped(ox, oy, live) ==
    [x |-> ox.inner, y |-> oy.inner, live |-> live, xret |-> ox.ret, yret |-> oy.ret]

\* allocate on both stores
SummaryAllocate ==
    /\ LET ox == allocate(pair.x, overflow_checks)
           oy == allocate(pair.y, overflow_checks)
       IN pair' = Stepped(ox, oy, IF ox.ret.tag = "Some"
                                  THEN pair.live \cup {ox.ret.number}
                                  ELSE pair.live)
    /\ UNCHANGED program

\* the Pid of number is dropped: recycle on both stores
SummaryRecycle(number) ==
    /\ number \in pair.live
    /\ LET ox == recycle(pair.x, number, overflow_checks)
           oy == recycle(pair.y, number, overflow_checks)
       IN pair' = Stepped(ox, oy, pair.live \ {number})
    /\ UNCHANGED program

\* contains(number) on both stores
SummaryContains(number) ==
    /\ pair' = [pair EXCEPT !.xret = contains(pair.x, number),
                            !.yret = contains(pair.y, number)]
    /\ UNCHANGED program

SummaryNext ==
    \/ SummaryAllocate
    \/ \E number \in Numbers : SummaryRecycle(number)
    \/ \E number \in Numbers : SummaryContains(number)

SummarySpec == SummaryInit /\ [][SummaryNext]_vars

\* allocate on the store of allocator.rs and on the store of lib.rs
EquivAllocate ==
    /\ LET ox == allocate(pair.x, overflow_checks)
           oy == lib_allocate(pair.y, overflow_checks)
       IN pair' = Stepped(ox, oy, IF ox.ret.tag = "Some"
                                  THEN pair.live \cup {ox.ret.number}
                                  ELSE pair.live)
    /\ UNCHANGED program

\* the Pid of number is dropped: the recycle of allocator.rs on the first
\* store, the recycle of lib.rs on the second
EquivRecycle(number) ==
    /\ number \in pair.live
    /\ LET ox == recycle(pair.x, number, overflow_checks)
           oy == lib_recycle(pair.y, number, overflow_checks)
       IN pair' = Stepped(ox, oy, pair.live \ {number})
    /\ UNCHANGED program

EquivNext ==
    \/ EquivAllocate
    \/ \E number \in Numbers : EquivRecycle(number)

\* both stores start fresh
EquivSpec == Init /\ [][EquivNext]_vars

\* what a thread does once it is inside a call: it keeps running (the spin
\* loop of lock keeps trying, the body and the return follow)
Step(t) ==
    \/ Lock(t)
    \/ AllocateScan(t)
    \/ AllocateMark(t)
    \/ AllocateReturn(t)
    \/ ContainsBody(t)
    \/ ContainsReturn(t)
    \/ DropBody(t)
    \/ DropUnlock(t)
    \/ DropArc(t)

\* every thread inside a call keeps being scheduled; the spin lock itself
\* promises no order among the threads that try to take it
FairSpec == Init /\ [][Next]_vars /\ \A t \in Threads : WF_vars(Step(t))

-----------------------------------------------------------------------------
(* What the state says *)

\* the thread's Pid exists and has not been recycled yet
HoldsLivePid(t) ==
    \/ pc[t] = "a_ret" /\ ret[t].tag = "Some"
    \/ pc[t] \in {"d_lock", "d_cs"}

PidNumber(t) == IF pc[t] = "a_ret" THEN ret[t].number ELSE arg[t]

\* how many live Pid handles carry the number n
LiveCopies(n) ==
    CopiesIn(n, pids) + Cardinality({t \in Threads : HoldsLivePid(t) /\ PidNumber(t) = n})

\* the numbers of the live Pid handles
Live == {n \in Numbers : LiveCopies(n) > 0}

\* the numbers whose bit is set in the bottom layers
Marked(in) == {n \in 0 .. (Capacity - 1) : BitSet(in.bottom_layers[n \div BITS], n % BITS)}

Waiting(t) == pc[t] \in {"a_lock", "c_lock", "d_lock"}
InCritical(t) == pc[t] \in {"a_cs", "a_mark", "a_ret", "c_cs", "c_ret", "d_cs", "d_ret"}
Quiet == \A t \in Threads : pc[t] = "idle"

-----------------------------------------------------------------------------
(* C1: uniqueness under concurrency.  In every reachable state of every
   interleaving of allocate calls and Pid drops by the threads, no two live
   Pid handles carry the same number. *)
C1_Uniqueness == \A n \in Numbers : LiveCopies(n) <= 1

\* a number is handed out again while the thread that recycled it is still
\* finishing the drop of the Pid that held it, and other Pids are at rest
C1_Witness ==
    \E t, u \in Threads :
        /\ t # u
        /\ pc[t] = "a_ret" /\ ret[t].tag = "Some"
        /\ pc[u] = "d_arc" /\ arg[u] = ret[t].number
        /\ pids # EmptyBag

-----------------------------------------------------------------------------
\* how many Pid handles are live, the one thread t is about to return aside
LiveBesides(t) ==
    BagCardinality(pids)
      + Cardinality({u \in Threads : u # t /\ HoldsLivePid(u)})

(* C2: exhaustion.  An allocate call returns None if and only if the number of
   live IDs equals the capacity ORDER * BITS at the moment it holds the lock,
   and returns Some whenever fewer are live. *)
C2_Exhaustion ==
    \A t \in Threads :
        pc[t] = "a_ret" =>
            /\ (ret[t] = None) <=> (LiveBesides(t) = Capacity)
            /\ LiveBesides(t) < Capacity => ret[t].tag = "Some"

(* C3: contains reflects liveness.  With no other operation in progress,
   contains(n) returns true if and only if there is a live Pid whose number
   is n. *)
C3_ContainsLive ==
    \A t \in Threads :
        (pc[t] = "c_ret" /\ \A u \in Threads \ {t} : pc[u] = "idle")
            => ret[t] = Bool(BagIn(arg[t], pids))

-----------------------------------------------------------------------------
\* the numbers whose bit is clear in the bottom layers
Free(in) == (0 .. (Capacity - 1)) \ Marked(in)

(* C4: lowest-free policy.  What the scan of allocate finds under the lock is
   the smallest number whose bit is clear, and None only when no bit is clear;
   so a successful allocate returns a number whose bit it has set and below
   which every bit is set. *)
C4_LowestFree ==
    \A t \in Threads :
        /\ pc[t] = "a_mark" =>
              /\ ret[t].tag = "Some"
              /\ ret[t].number \in Free(inner)
              /\ \A m \in Free(inner) : ret[t].number <= m
        /\ (pc[t] = "a_ret" /\ ret[t] = None) => Free(inner) = {}
        /\ (pc[t] = "a_ret" /\ ret[t].tag = "Some") =>
              /\ ret[t].number \in Marked(inner)
              /\ \A m \in 0 .. (Capacity - 1) : m < ret[t].number => m \in Marked(inner)

\* the pool was full, the Pid of a number x that is neither in the first layer
\* nor the last number was dropped, and allocate has returned x again
C4_Witness ==
    \E t \in Threads :
        /\ pc[t] = "a_ret" /\ ret[t].tag = "Some"
        /\ Marked(inner) = 0 .. (Capacity - 1)
        /\ ret[t].number >= BITS
        /\ ret[t].number < Capacity - 1
        /\ BagCardinality(pids) = Capacity - 1

-----------------------------------------------------------------------------
(* C5: full-cycle round trip.  After any sequence of allocations and drops
   that ends with no live Pid, the store equals a freshly constructed one:
   every bottom layer 0 and the top layer 0. *)
C5_RoundTrip == (Quiet /\ pids = EmptyBag) => inner = new

-----------------------------------------------------------------------------
(* C6: exactly-once recycle.  The bit of every live Pid is set, at rest and
   at the moment its drop runs recycle: no number is recycled twice and no
   number that is not allocated is recycled. *)
C6_RecycleOnce ==
    /\ \A n \in BagToSet(pids) : n \in Marked(inner)
    /\ \A t \in Threads : pc[t] \in {"d_lock", "d_cs"} => arg[t] \in Marked(inner)

\* one Pid's drop is about to run recycle while another thread waits to drop
\* a second Pid and a third Pid is at rest
C6_Witness ==
    \E t, u \in Threads :
        /\ pc[t] = "d_cs" /\ pc[u] = "d_lock"
        /\ arg[t] # arg[u]
        /\ pids # EmptyBag

-----------------------------------------------------------------------------
\* the thread owns a Pid, live or in the middle of its drop
HoldsPid(t) ==
    \/ pc[t] = "a_ret" /\ ret[t].tag = "Some"
    \/ pc[t] \in {"d_lock", "d_cs", "d_ret", "d_arc"}

\* how many PidAllocator handles and Pids refer to the store
Owners ==
    (IF handle THEN 1 ELSE 0)
      + BagCardinality(pids)
      + Cardinality({t \in Threads : HoldsPid(t)})

(* C7: shared-store lifetime.  The Arc's strong count equals the number of
   PidAllocator handles and Pids that exist, so the store is torn down
   (strong = 0) only when none is left, and every thread that waits for the
   lock or holds it works on a store that is alive. *)
C7_StoreLifetime ==
    /\ strong = Owners
    /\ \A t \in Threads : (Waiting(t) \/ InCritical(t)) => strong > 0

\* the PidAllocator is gone and a Pid dropped after it recycles its number
C7_Witness ==
    /\ ~handle
    /\ \E t \in Threads : pc[t] = "d_ret" /\ ret[t] = Unit

-----------------------------------------------------------------------------
Started(t) == pc[t] # "idle"

(* C8, as claimed: no operation blocks indefinitely.  In every concurrent
   execution every operation that has started eventually completes. *)
C8_EveryOperationCompletes ==
    \A t \in Threads : Started(t) ~> ~Started(t)

(* C8, amended: no deadlock and no unbounded critical section.  A thread that
   has taken the lock finishes its scan, releases the lock and completes its
   operation; while operations wait for the lock, one of them takes it; and
   the lock is held exactly while one thread is between lock and release, so
   no thread waits for a lock it holds itself. *)
C8_LockProgress ==
    /\ \A t \in Threads : (InCritical(t) \/ pc[t] = "d_arc") ~> ~Started(t)
    /\ (\E t \in Threads : Waiting(t)) ~> (\E t \in Threads : InCritical(t))
    /\ [](locked <=> \E t \in Threads : InCritical(t))
    /\ [](\A t, u \in Threads : (InCritical(t) /\ InCritical(u)) => t = u)

\* one thread spins on the lock while the other is inside its critical section
C8_Witness ==
    \E t, u \in Threads : Waiting(t) /\ InCritical(u) /\ locked

-----------------------------------------------------------------------------
(* C9: range safety of contains.  For every n >= ORDER * BITS, contains(n)
   returns false: it neither returns true nor panics on an index. *)
C9_RangeSafety ==
    \A t \in Threads :
        (pc[t] = "c_ret" /\ arg[t] >= Capacity) => ret[t] = Bool(FALSE)

\* contains has answered for the first number beyond the pool, the pool full
C9_Witness ==
    \E t \in Threads :
        /\ pc[t] = "c_ret" /\ arg[t] = Capacity
        /\ BagCardinality(pids) = Capacity

-----------------------------------------------------------------------------
(* C10: range of issued IDs.  Every number returned by a successful allocate
   and every Pid's number is below ORDER * BITS, and the layer index recycle
   computes at a drop is below ORDER: recycle never panics on its index. *)
C10_IssuedRange ==
    /\ \A n \in BagToSet(pids) : n < Capacity
    /\ \A t \in Threads :
         /\ (pc[t] = "a_ret" /\ ret[t].tag = "Some") => ret[t].number < Capacity
         /\ pc[t] \in {"d_lock", "d_cs", "d_ret", "d_arc"} =>
               arg[t] \div (2 ^ BITS_PER_LAYER_SHIFT) < ORDER
         /\ ret[t] # PanicIndex

\* the Pid of the highest number has been recycled
C10_Witness ==
    \E t \in Threads : pc[t] = "d_ret" /\ arg[t] = Capacity - 1 /\ ret[t] = Unit

-----------------------------------------------------------------------------
\* bit i of the summary word is set exactly when detail word i is all ones
SummaryAgrees(in, i) == BitSet(in.top_layer, i) <=> (in.bottom_layers[i] = MAX)

(* C12: summary invariant of lib.rs.  In every state the crate of lib.rs
   reaches by allocate and recycle-at-drop, for every block index i < ORDER,
   bit i of top_layer is set if and only if bottom_layers[i] is all ones. *)
C12_SummaryInvariant == \A i \in Layers : SummaryAgrees(inner, i)

-----------------------------------------------------------------------------
\* the layer a number belongs to: number >> BITS_PER_LAYER_SHIFT
LayerOf(number) == number \div (2 ^ BITS_PER_LAYER_SHIFT)

\* thread t takes the step that runs recycle under the lock
Recycles(t) == pc[t] = "d_cs" /\ pc'[t] = "d_ret"

(* C13 as stated: with the unconditional clear of allocator.rs, recycling an
   ID from a block that was already not full leaves the summary
   under-reporting: the block's summary bit is clear although its detail word
   is all ones. *)
C13_UnderReportsAfterRecycle ==
    [][\A t \in Threads :
         (Recycles(t) /\ inner.bottom_layers[LayerOf(arg[t])] # MAX) =>
             /\ ~BitSet(inner'.top_layer, LayerOf(arg[t]))
             /\ inner'.bottom_layers[LayerOf(arg[t])] = MAX]_vars

(* C13, amended: the unconditional clear of allocator.rs never leaves the
   block it recycled from under-reported.  After every recycle the detail
   word of that block is not all ones, so its summary bit, clear, agrees with
   it; the summary disagrees with the detail words only through the shift of
   a block index >= BITS (see C12), not through the unconditional clear. *)
C13_RecycledBlockAgrees ==
    [][\A t \in Threads :
         Recycles(t) =>
             /\ inner'.bottom_layers[LayerOf(arg[t])] # MAX
             /\ ~BitSet(inner'.top_layer, LayerOf(arg[t]))]_vars

\* recycle has run on a number of a block that was not full, the block is
\* now empty, and another block is all ones with its summary bit clear
C13_Witness ==
    \E t \in Threads :
        /\ pc[t] = "d_ret" /\ ret[t] = Unit
        /\ inner.bottom_layers[LayerOf(arg[t])] = 0
        /\ \E j \in Layers :
              /\ j # LayerOf(arg[t])
              /\ inner.bottom_layers[j] = MAX
              /\ ~BitSet(inner.top_layer, j)

-----------------------------------------------------------------------------
\* thread t takes a step
Moves(t) == pc'[t] # pc[t]

(* C14: mutual exclusion.  At most one thread is inside a store operation at
   a time; the store is read and written only by the thread that holds the
   lock, and the lock is released when the operation ends: a thread outside
   its critical section holds no lock. *)
C14_MutualExclusion ==
    /\ [](Cardinality({t \in Threads : InCritical(t)}) <= 1)
    /\ [](\A t \in Threads : InCritical(t) => locked)
    /\ []((\A t \in Threads : ~InCritical(t)) => ~locked)
    /\ [][inner' # inner => \E t \in Threads : InCritical(t) /\ locked /\ Moves(t)]_vars
    /\ [][\A t \in Threads :
            (Moves(t) /\ pc[t] \in {"a_cs", "c_cs", "d_cs"}) =>
                (locked /\ \A u \in Threads \ {t} : ~InCritical(u))]_vars

\* one thread is marking a bit under the lock while the other waits to
\* recycle a Pid
C14_Witness ==
    \E t, u \in Threads :
        /\ pc[t] = "a_mark" /\ locked
        /\ pc[u] = "d_lock"

-----------------------------------------------------------------------------
(* C15: independence from the summary word.  Two stores with equal detail
   words and arbitrary, different summary words, stepped through the same
   sequence of allocate, recycle and contains, return the same numbers and
   booleans at every step and keep equal detail words. *)
C15_SummaryIndependence ==
    /\ pair.x.bottom_layers = pair.y.bottom_layers
    /\ pair.xret = pair.yret

\* the summary words differ, a block of the first store is all ones, and the
\* last allocate returned the same number of a later block from both stores
C15_Witness ==
    /\ pair.x.top_layer # pair.y.top_layer
    /\ pair.x.bottom_layers[0] = MAX
    /\ pair.xret.tag = "Some" /\ pair.xret.number >= BITS
    /\ pair.yret = pair.xret

-----------------------------------------------------------------------------
\* thread t takes the step of allocate that found no free bit
Exhausts(t) == pc[t] = "a_cs" /\ pc'[t] = "a_ret"

\* thread t takes the step of allocate that marks the bit it found
Marks(t) == pc[t] = "a_mark" /\ pc'[t] = "a_ret"

(* C16: exhaustion leaves the state unchanged.  An allocate that returns None
   modifies neither a detail word nor the summary word, makes no Pid and adds
   no reference to the store; and the pool stays usable: None is returned
   only when no ID is free, and an allocate that finds a free ID, as the next
   allocate after the drop of a live Pid does, returns Some. *)
C16_ExhaustionLeavesState ==
    [][\A t \in Threads :
         /\ Exhausts(t) =>
               /\ ret'[t] = None /\ Free(inner) = {}
               /\ inner' = inner /\ strong' = strong /\ pids' = pids
         /\ (pc[t] = "a_ret" /\ ret[t] = None /\ Moves(t)) =>
               (inner' = inner /\ strong' = strong /\ pids' = pids)
         /\ Marks(t) => ret'[t].tag = "Some"]_vars

-----------------------------------------------------------------------------
(* C17: frame of recycle.  Dropping the Pid of number x clears exactly the
   bit of x, which was set: every other number keeps its allocation status;
   and in the summary word no bit other than the bit of x's block changes. *)
C17_RecycleFrame ==
    [][\A t \in Threads :
         Recycles(t) =>
             /\ arg[t] \in Marked(inner)
             /\ Marked(inner') = Marked(inner) \ {arg[t]}
             /\ \A j \in 0 .. (BITS - 1) :
                   j # LayerOf(arg[t]) =>
                       (BitSet(inner'.top_layer, j) <=> BitSet(inner.top_layer, j))]_vars

-----------------------------------------------------------------------------
\* thread t takes a step of a contains call
ContainsStep(t) == Moves(t) /\ (pc'[t] = "c_lock" \/ pc[t] \in {"c_lock", "c_cs", "c_ret"})

(* C18: frame of allocate and of contains.  A successful allocate sets exactly
   one detail bit, the bit of the number it returns, which was clear before,
   and changes no other detail bit; no step of a contains call, for any
   argument, changes a detail word or the summary word. *)
C18_AllocateContainsFrame ==
    [][\A t \in Threads :
         /\ (Marks(t) /\ ret'[t].tag = "Some") =>
               /\ ret'[t].number \notin Marked(inner)
               /\ Marked(inner') = Marked(inner) \cup {ret'[t].number}
               /\ \A i \in Layers :
                     i # LayerOf(ret'[t].number) =>
                         inner'.bottom_layers[i] = inner.bottom_layers[i]
         /\ ContainsStep(t) => inner' = inner]_vars

\* allocate has marked the second bit of a layer past the first and is about
\* to return its number, while the other thread's contains waits for the lock
C18_Witness ==
    \E t, u \in Threads :
        /\ pc[t] = "a_ret" /\ ret[t].tag = "Some"
        /\ ret[t].number >= BITS /\ ret[t].number % BITS = 1
        /\ pc[u] = "c_lock" /\ arg[u] < Capacity

-----------------------------------------------------------------------------
\* every value of a PidAllocatorInner, reachable or not
Stores == [top_layer : 0 .. MAX, bottom_layers : [Layers -> 0 .. MAX]]

(* C19: the two implementations are equivalent.  The allocator of lib.rs and
   the allocator of allocator.rs, run side by side on the same sequence of
   allocate and drop operations, return the same outcomes and have equal
   detail words and equal summary words after every step; and for every
   store state and every in-range number the two recycle functions produce
   the same resulting state. *)
C19_Equivalent ==
    /\ pair.x = pair.y
    /\ pair.xret = pair.yret
    /\ \A in \in Stores : \A number \in 0 .. (Capacity - 1) :
          recycle(in, number, overflow_checks) = lib_recycle(in, number, overflow_checks)

\* a Pid has just been dropped from both allocators while a block is all
\* ones and its summary bit set, and other Pids are live
C19_Witness ==
    /\ pair.xret = Unit /\ pair.yret = Unit
    /\ pair.live # {}
    /\ \E i \in Layers : pair.x.bottom_layers[i] = MAX /\ BitSet(pair.x.top_layer, i)
    /\ pair.y = pair.x

====
